---- MODULE Spec2Model ----
(***************************************************************************)
(* A model of src/case_document_differences.py: the exclusion zone         *)
(* builder, the visual difference filter, the OCR difference matcher, the  *)
(* process() orchestration and the runtime threshold configuration.        *)
(*                                                                         *)
(* Numbers.  Page coordinates are fractions of a page in the source; here  *)
(* they are integers in thousandths of a page (0.005 is 5, 1 is 1000), so  *)
(* an area is in millionths of a page (0.0001 is 100).  Ratios in [0,1]    *)
(* (confidence, intersection and similarity thresholds) are in percent     *)
(* (0.7 is 70).  A computed ratio is kept exact as a pair <<num, den>>.    *)
(***************************************************************************)
EXTENDS Integers, Sequences, FiniteSets, TLC

VARIABLES
    heap,        \* object id -> threshold map; id ConfigRef is DIFFERENCE_CONFIG
    returned,    \* id of the map last returned by get_difference_config, or NoRef
    expected,    \* history: per key, the value of the last update naming it
    pass,        \* the last filtering pass: its input, the thresholds it read, its output
    message,     \* the EvaluationPipelineMessage process() is given
    detector,    \* what the remote visual_difference call does in this invocation
    pc,          \* where process() is
    success_label,   \* success_label.entities
    exclude_label,   \* exclude_label.entities
    error_label,     \* error_label.entities
    ocr_differences, \* what check_differences_by_locations returned
    zones,           \* excluded_difference_locations of visual_differences
    raw_differences, \* what get_differences returned
    entity_annotation, \* message.entity_annotation
    calls            \* history: the functions process() has entered

procvars == <<message, detector, pc, success_label, exclude_label, error_label,
              ocr_differences, zones, raw_differences, entity_annotation, calls>>

cfgvars == <<heap, returned, expected, pass>>

\* -------------------------------------------------------------- bounds

\* Longest candidate list handed to one filtering pass.
MaxCands == 3

\* Most rows in one OCR table.
MaxTokens == 2

\* Most per-page entries in one detector result.
MaxEntries == 3

\* ------------------------------------------------------------ helpers

Min(a, b) == IF a < b THEN a ELSE b

Max(a, b) == IF a > b THEN a ELSE b

Range(s) == {s[i] : i \in 1..Len(s)}

RECURSIVE FlattenSeq(_)
FlattenSeq(ss) == IF ss = <<>> THEN <<>> ELSE Head(ss) \o FlattenSeq(Tail(ss))

\* Sequences of pairwise different elements of S, of length 0..n.
RECURSIVE DistinctSeqs(_, _)
DistinctSeqs(S, n) ==
    IF n = 0 THEN {<<>>}
    ELSE LET shorter == DistinctSeqs(S, n - 1)
         IN shorter \cup UNION {{Append(s, x) : x \in S \ Range(s)} :
                                   s \in {t \in shorter : Len(t) = n - 1}}

\* ----------------------------------------------------------- geometry

\* A ratio num/den (den > 0) against a percentage.
RatLt(r, pct) == r[1] * 100 < pct * r[2]

RatGe(r, pct) == r[1] * 100 >= pct * r[2]

RatGt(r, pct) == r[1] * 100 > pct * r[2]

Area(a) == a.width * a.height

IntersectionArea(a, b) ==
    LET w == Min(a.left + a.width, b.left + b.width) - Max(a.left, b.left)
        h == Min(a.top + a.height, b.top + b.height) - Max(a.top, b.top)
    IN IF w > 0 /\ h > 0 THEN w * h ELSE 0

\* Location.intersection_percentage(self, other): the overlap area over the
\* area of self; 0 when self has no area or the rectangles do not overlap.
\* The page of neither rectangle is looked at.
intersection_percentage(self, other) ==
    IF Area(self) = 0 \/ IntersectionArea(self, other) = 0
    THEN <<0, 1>>
    ELSE <<IntersectionArea(self, other), Area(self)>>

\* ------------------------------------------------------ configuration

ConfigKeys ==
    {"min_difference_area", "min_difference_width", "min_difference_height",
     "exclusion_intersection_threshold", "text_similarity_threshold",
     "max_differences_per_page", "confidence_threshold"}

\* DIFFERENCE_CONFIG as the module is loaded.
DefaultConfig ==
    [k \in ConfigKeys |->
        CASE k = "min_difference_area" -> 100
          [] k = "min_difference_width" -> 5
          [] k = "min_difference_height" -> 5
          [] k = "exclusion_intersection_threshold" -> 70
          [] k = "text_similarity_threshold" -> 75
          [] k = "max_differences_per_page" -> 20
          [] k = "confidence_threshold" -> 60]

ConfigRef == "DIFFERENCE_CONFIG"

CopyRef == "copy"

NoRef == "none"

DIFFERENCE_CONFIG == heap[ConfigRef]

\* for key, value in kwargs.items(): assign when the key is known, warn otherwise.
RECURSIVE UpdateLoop(_, _)
UpdateLoop(cfg, items) ==
    IF items = <<>> THEN cfg
    ELSE LET key == Head(items)[1]
             value == Head(items)[2]
         IN UpdateLoop(IF key \in DOMAIN cfg
                       THEN [k \in DOMAIN cfg |-> IF k = key THEN value ELSE cfg[k]]
                       ELSE cfg,
                       Tail(items))

\* A bug that stores every key it is given.
UpdatedConfigStoringUnknown(cfg, items) ==
    LET given == {items[i][1] : i \in 1..Len(items)}
        val(k) == (CHOOSE i \in 1..Len(items) : items[i][1] = k)
    IN [k \in DOMAIN cfg \cup given |-> IF k \in given THEN items[val(k)][2] ELSE cfg[k]]

UpdatedConfig(cfg, items) == UpdateLoop(cfg, items)

\* A bug that hands out the live map.
ReturnedLive == ConfigRef

\* DIFFERENCE_CONFIG.copy(): a new map object.
ReturnedRef == CopyRef

\* ------------------------------------------- visual difference filter

\* An optional attribute is a sequence: <<>> when the object has none, <<v>>
\* when it has the value v; a value of None is <<NoneValue>>.
Absent == <<>>

NoneValue == 0 - 1

\* getattr(diff, 'page', 1)
PageOf(d) == IF d.page = Absent THEN 1 ELSE d.page[1]

\* getattr(diff, 'confidence', 1.0)
ConfidenceOf(d) == IF d.confidence = Absent THEN 100 ELSE d.confidence[1]

\* The keys of page_differences, in insertion order.
RECURSIVE PageOrder(_, _)
PageOrder(differences, seen) ==
    IF differences = <<>> THEN seen
    ELSE PageOrder(Tail(differences),
                   IF PageOf(Head(differences)) \in Range(seen) THEN seen
                   ELSE Append(seen, PageOf(Head(differences))))

\* list.sort(key=area, reverse=True): descending and stable.
RECURSIVE InsertByArea(_, _)
InsertByArea(sorted, d) ==
    IF sorted = <<>> THEN <<d>>
    ELSE IF Area(Head(sorted)) >= Area(d)
         THEN <<Head(sorted)>> \o InsertByArea(Tail(sorted), d)
         ELSE <<d>> \o sorted

RECURSIVE SortByAreaDesc(_)
SortByAreaDesc(s) ==
    IF s = <<>> THEN <<>>
    ELSE InsertByArea(SortByAreaDesc(SubSeq(s, 1, Len(s) - 1)), s[Len(s)])

\* A bug that cuts the list as it came, unsorted.
SortedPageDiffsUnsorted(page_diffs) == page_diffs

SortedPageDiffs(page_diffs) == SortByAreaDesc(page_diffs)

\* page_diffs[:n]
SliceTo(s, n) ==
    IF n >= 0 THEN SubSeq(s, 1, Min(n, Len(s))) ELSE SubSeq(s, 1, Max(0, Len(s) + n))

PassesSize(d, cfg) ==
    /\ Area(d) >= cfg["min_difference_area"]
    /\ d.width >= cfg["min_difference_width"]
    /\ d.height >= cfg["min_difference_height"]

\* The candidates of page p the loop of lines 153-169 looks at.
CappedPageDiffs(differences, cfg, p) ==
    SliceTo(SortedPageDiffs(SelectSeq(differences, LAMBDA d : PageOf(d) = p)),
            cfg["max_differences_per_page"])

\* Comparing a confidence of None with a number raises TypeError.
filter_raises(differences, cfg) ==
    \E p \in Range(PageOrder(differences, <<>>)) :
        \E d \in Range(CappedPageDiffs(differences, cfg, p)) :
            PassesSize(d, cfg) /\ d.confidence = <<NoneValue>>

filter_meaningful_differences(differences, cfg) ==
    LET pages == PageOrder(differences, <<>>)
        Kept(p) == SelectSeq(CappedPageDiffs(differences, cfg, p),
                             LAMBDA d : PassesSize(d, cfg)
                                        /\ ConfidenceOf(d) >= cfg["confidence_threshold"])
    IN FlattenSeq([i \in 1..Len(pages) |-> Kept(pages[i])])

\* ---------------------------------------------- fuzzy text similarity

\* A text is a sequence of one-character strings.
Whitespace == {" "}

\* str.lower() on the letters the model's texts use.
Lower(c) ==
    CASE c = "S" -> "s"
      [] c = "O" -> "o"
      [] c = "L" -> "l"
      [] c = "T" -> "t"
      [] OTHER -> c

\* text.strip().split(): the maximal runs of non-whitespace characters.
RECURSIVE SplitWords(_, _)
SplitWords(text, word) ==
    IF text = <<>> THEN (IF word = <<>> THEN <<>> ELSE <<word>>)
    ELSE IF Head(text) \in Whitespace
         THEN (IF word = <<>> THEN <<>> ELSE <<word>>) \o SplitWords(Tail(text), <<>>)
         ELSE SplitWords(Tail(text), Append(word, Head(text)))

\* ' '.join(words)
RECURSIVE JoinWords(_)
JoinWords(words) ==
    IF words = <<>> THEN <<>>
    ELSE IF Len(words) = 1 THEN Head(words)
         ELSE Head(words) \o <<" ">> \o JoinWords(Tail(words))

\* ' '.join(text.strip().split()).lower()
CleanText(text) ==
    LET joined == JoinWords(SplitWords(text, <<>>))
    IN [i \in 1..Len(joined) |-> Lower(joined[i])]

\* str.replace(original, replacement) for single characters.
ReplaceChar(text, original, replacement) ==
    [i \in 1..Len(text) |-> IF text[i] = original THEN replacement ELSE text[i]]

\* ocr_variants.items(): a dict literal keeps a repeated key's first position
\* and its last value, so '1' maps to 'l' only.
OcrVariantItems ==
    << <<"o", "0">>, <<"0", "o">>, <<"i", "1">>, <<"1", "l">>, <<"l", "1">>,
       <<"s", "5">>, <<"5", "s">>, <<"g", "9">>, <<"9", "g">>, <<"b", "6">>,
       <<"6", "b">> >>

RECURSIVE ApplyVariants(_, _)
ApplyVariants(text, items) ==
    IF items = <<>> THEN text
    ELSE ApplyVariants(ReplaceChar(text, Head(items)[1], Head(items)[2]), Tail(items))

\* Length of the common run of a from i and b from j, within a[..ahi], b[..bhi].
RECURSIVE RunLength(_, _, _, _, _, _)
RunLength(a, b, i, j, ahi, bhi) ==
    IF i > ahi \/ j > bhi \/ a[i] # b[j] THEN 0
    ELSE 1 + RunLength(a, b, i + 1, j + 1, ahi, bhi)

\* Whether the block of length kp at p comes before the block of length kq at q
\* in find_longest_match's order: longer first, then earlier in a, then in b.
BlockBefore(p, kp, q, kq) ==
    \/ kp > kq
    \/ kp = kq /\ p[1] < q[1]
    \/ kp = kq /\ p[1] = q[1] /\ p[2] <= q[2]

\* SequenceMatcher.find_longest_match on a[alo..ahi], b[blo..bhi] (no junk):
\* the longest block, the earliest in a, then the earliest in b; <<i, j, k>>.
find_longest_match(a, b, alo, ahi, blo, bhi) ==
    IF alo > ahi \/ blo > bhi THEN <<alo, blo, 0>>
    ELSE CHOOSE m \in {<<p[1], p[2], RunLength(a, b, p[1], p[2], ahi, bhi)>> :
                          p \in (alo..ahi) \X (blo..bhi)} :
             \A q \in (alo..ahi) \X (blo..bhi) :
                 BlockBefore(m, m[3], q, RunLength(a, b, q[1], q[2], ahi, bhi))

\* The total size of SequenceMatcher.get_matching_blocks(): the longest block m
\* of the range, then the blocks to its left and to its right.
RECURSIVE MatchingSize(_, _, _, _, _, _)
BlocksAround(a, b, alo, ahi, blo, bhi, m) ==
    IF m[3] = 0 THEN 0
    ELSE m[3] + MatchingSize(a, b, alo, m[1] - 1, blo, m[2] - 1)
              + MatchingSize(a, b, m[1] + m[3], ahi, m[2] + m[3], bhi)

MatchingSize(a, b, alo, ahi, blo, bhi) ==
    BlocksAround(a, b, alo, ahi, blo, bhi, find_longest_match(a, b, alo, ahi, blo, bhi))

\* SequenceMatcher(None, a, b).ratio(): 2 * matches / (len(a) + len(b)), 1 when
\* both are empty.
Ratio(a, b) ==
    IF Len(a) + Len(b) = 0 THEN <<1, 1>>
    ELSE <<2 * MatchingSize(a, b, 1, Len(a), 1, Len(b)), Len(a) + Len(b)>>

\* max(similarity, variant_similarity)
RatMax(r, s) == IF r[1] * s[2] >= s[1] * r[2] THEN r ELSE s

\* Lines 390-403: the better of the ratio and the ratio of the OCR variant.
BestRatio(clean_text1, clean_text2, similarity, threshold) ==
    IF RatLt(similarity, threshold)
    THEN RatMax(similarity, Ratio(ApplyVariants(clean_text1, OcrVariantItems), clean_text2))
    ELSE similarity

is_text_similar(text1, text2, threshold) ==
    IF text1 = <<>> /\ text2 = <<>> THEN TRUE
    ELSE IF text1 = <<>> \/ text2 = <<>> THEN FALSE
    ELSE RatGt(BestRatio(CleanText(text1), CleanText(text2),
                         Ratio(CleanText(text1), CleanText(text2)), threshold),
               threshold)

\* ---------------------------------------------- exclusion zone builder

Location(left, top, width, height, page) ==
    [left |-> left, top |-> top, width |-> width, height |-> height, page |-> page]

\* The module-level excluded_locations list.
excluded_locations == <<[left |-> 165, top |-> 25, width |-> 125, height |-> 40]>>

\* A list attribute that may be None: [none |-> TRUE] or a list.
NoneList == [none |-> TRUE, list |-> <<>>]

Some(list) == [none |-> FALSE, list |-> list]

\* "if images": neither None nor empty.
IsTruthy(opt) == ~opt.none /\ opt.list # <<>>

\* barcode.location.left on a barcode without a location raises AttributeError.
zones_raise(msg) == \E i \in 1..Len(msg.barcodes) : msg.barcodes[i].location = <<>>

BarcodeZones(barcode) ==
    LET location == barcode.location[1]
    IN << Location(location.left - 20, location.top - 20, location.width + 40,
                   location.height + 40, location.page),
          Location(location.left - 180, location.top, 180, 30, location.page) >>

PageZones(page_number) ==
    [i \in 1..Len(excluded_locations) |->
        Location(excluded_locations[i].left - 30, excluded_locations[i].top - 30,
                 excluded_locations[i].width + 60, excluded_locations[i].height + 60,
                 page_number)]
    \o << Location(700, 80, 160, 60, page_number),
          Location(390, 100, 200, 60, page_number) >>

AboveLine(line) ==
    Location(line.left - 50, line.top - 20, line.right - line.left + 100, 60, 2)

LineZones(msg, line) ==
    IF \E i \in 1..Len(msg.extracted_signatures) :
           RatGt(intersection_percentage(msg.extracted_signatures[i].signature.location,
                                         AboveLine(line)), 60)
    THEN <<AboveLine(line)>>
    ELSE <<>>

get_excluded_difference_locations(msg) ==
    FlattenSeq([i \in 1..Len(msg.barcodes) |-> BarcodeZones(msg.barcodes[i])])
    \o FlattenSeq([i \in 1..Len(msg.images.list) |-> PageZones(i)])
    \o FlattenSeq([i \in 1..Len(msg.horizontal_line_regions) |->
                      LineZones(msg, msg.horizontal_line_regions[i])])

\* ------------------------------------------------ OCR difference matcher

RowLocation(row, page_number) ==
    Location(row.location_left, row.location_top, row.location_width,
             row.location_height, page_number)

\* table[(table['page_num'] == page_number) & (table['level'] == 4)]
PageRows(table, page_number) ==
    SelectSeq(table, LAMBDA r : r.page_num = page_number /\ r.level = 4)

\* Lines 309-315: some zone of this page covers more than half of the token.
ExcludedToken(original_location, locations, page_number) ==
    \E i \in 1..Len(locations) :
        /\ locations[i].page = page_number
        /\ RatGt(intersection_percentage(original_location, locations[i]), 50)

\* A bug that takes the first row of the page, overlapping or not.
FirstMatchAnyRow(original_location, tsv, page_number) == IF tsv = <<>> THEN 0 ELSE 1

\* Lines 321-336: the first row of tsv the token overlaps, or 0.
FirstMatch(original_location, tsv, page_number) ==
    LET hits == {j \in 1..Len(tsv) :
                    RatGt(intersection_percentage(original_location,
                                                  RowLocation(tsv[j], page_number)), 0)}
    IN IF hits = {} THEN 0 ELSE CHOOSE j \in hits : \A h \in hits : j <= h

Finding(kind, row, difference) == [kind |-> kind, row |-> row, difference |-> difference]

\* Lines 300-340 for the rows of one page; acc holds the matched flags of tsv
\* and the rows appended to missing and to text_differences.
RECURSIVE AlignRows(_, _, _, _, _, _)
AlignRows(original_rows, tsv, page_number, locations, threshold, acc) ==
    IF original_rows = <<>> THEN acc
    ELSE LET original_row == Head(original_rows)
             original_location == RowLocation(original_row, page_number)
             j == FirstMatch(original_location, tsv, page_number)
             next ==
                 IF ExcludedToken(original_location, locations, page_number) THEN acc
                 ELSE IF j = 0
                 THEN [acc EXCEPT !.missing =
                          Append(@, Finding("Missing", original_row,
                                            <<"Missing Text: ", original_row.text>>))]
                 ELSE [acc EXCEPT
                          !.matched = @ \cup {j},
                          !.text_differences =
                              IF is_text_similar(original_row.text, tsv[j].text, threshold)
                              THEN @
                              ELSE Append(@, Finding("Different", original_row,
                                                     <<"Different Text: ", original_row.text,
                                                       ". Document: ", tsv[j].text>>))]
         IN AlignRows(Tail(original_rows), tsv, page_number, locations, threshold, next)

\* One pass of the loop of line 292: [missing, added, text_differences] of a page.
AlignPage(msg, page_number, cfg) ==
    LET original_tsv == PageRows(msg.original_tsv.list, page_number)
        tsv == PageRows(msg.tsv.list, page_number)
        locations == IF original_tsv = <<>> THEN <<>>
                     ELSE get_excluded_difference_locations(msg)
        acc == AlignRows(original_tsv, tsv, page_number, locations,
                         cfg["text_similarity_threshold"],
                         [matched |-> {}, missing |-> <<>>, text_differences |-> <<>>])
        unmatched == SelectSeq([j \in 1..Len(tsv) |-> [j |-> j, row |-> tsv[j]]],
                               LAMBDA e : e.j \notin acc.matched)
    IN [missing |-> acc.missing,
        added |-> [i \in 1..Len(unmatched) |->
                      Finding("Added", unmatched[i].row,
                              <<"Added Text: ", unmatched[i].row.text>>)],
        text_differences |-> acc.text_differences]

\* get_excluded_difference_locations is called once per reference row.
check_raises(msg) ==
    /\ zones_raise(msg)
    /\ \E p \in 1..Len(msg.original_images.list) :
           PageRows(msg.original_tsv.list, p) # <<>>

check_differences_by_locations(msg, cfg) ==
    LET pages == [p \in 1..Len(msg.original_images.list) |-> AlignPage(msg, p, cfg)]
    IN FlattenSeq([p \in 1..Len(pages) |-> pages[p].missing])
       \o FlattenSeq([p \in 1..Len(pages) |-> pages[p].added])
       \o FlattenSeq([p \in 1..Len(pages) |-> pages[p].text_differences])

\* ------------------------------------------------------------- entities

\* Entity(entity=f"{prefix}{n}", value=..., location=...); n = 0: no number;
\* the value as text; the location <<>> when none is given.
Entity(prefix, n, value, location) ==
    [entity |-> <<prefix, n>>, value |-> value, location |-> location]

OcrEntities(found) ==
    [i \in 1..Len(found) |->
        Entity("case_document_differences_ocr_", i, "True",
               <<RowLocation(found[i].row, found[i].row.page_num)>>)]

ExcludedEntities(locations) ==
    [i \in 1..Len(locations) |-> Entity("difference_excluded_", i, "True", <<locations[i]>>)]

\* Lines 96-99: cut the region at the page's right and bottom edges.
Clip(difference) ==
    LET h == IF difference.top + difference.height > 1000
             THEN 1000 - difference.top ELSE difference.height
        w == IF difference.width + difference.left > 1000
             THEN 1000 - difference.left ELSE difference.width
    IN [difference EXCEPT !.height = h, !.width = w]

VisualEntities(filtered) ==
    [i \in 1..Len(filtered) |->
        Entity("case_document_visual_difference_", i, "True", <<Clip(filtered[i])>>)]

ExceptionEntity ==
    Entity("case_document_visual_differences_exception", 0,
           "Unable to identify differences. Exception: ...", <<>>)

ImagesMissingEntity ==
    Entity("case_document_visual_images_missing", 0, "Images missing. ...", <<>>)

ValidationEntity(name) == Entity(name, 0, "True", <<>>)

\* ------------------------------------------------------- get_differences

\* type(page_result) is list; an entry is [is_list, items].
IsList(page_result) == page_result.is_list

\* The entries up to the first one that is not a list (the loop breaks there).
RECURSIVE ScannedEntries(_)
ScannedEntries(difference_result) ==
    IF difference_result = <<>> \/ ~IsList(Head(difference_result)) THEN <<>>
    ELSE <<Head(difference_result).items>> \o ScannedEntries(Tail(difference_result))

\* A bug that skips an entry that is not a list and goes on.
ScannedSkipping(difference_result) ==
    LET lists == SelectSeq(difference_result, IsList)
    IN [i \in 1..Len(lists) |-> lists[i].items]

Scanned(difference_result) == ScannedEntries(difference_result)

\* A bug that keeps a candidate covered exactly to the threshold.
KeepsStrict(difference, locations_to_exclude, cfg) ==
    \A i \in 1..Len(locations_to_exclude) :
        ~RatGt(intersection_percentage(difference, locations_to_exclude[i]),
               cfg["exclusion_intersection_threshold"])

\* Line 181: all(... < threshold for l in locations_to_exclude).
Keeps(difference, locations_to_exclude, cfg) ==
    \A i \in 1..Len(locations_to_exclude) :
        RatLt(intersection_percentage(difference, locations_to_exclude[i]),
              cfg["exclusion_intersection_threshold"])

get_differences(difference_result, locations_to_exclude, cfg) ==
    SelectSeq(FlattenSeq(Scanned(difference_result)),
              LAMBDA d : Keeps(d, locations_to_exclude, cfg))

\* --------------------------------------------------------------- inputs

Pages(n) == [i \in 1..n |-> "image"]

Row(text, page_num, l, t, w, h, level) ==
    [text |-> text, page_num |-> page_num, level |-> level, location_left |-> l,
     location_top |-> t, location_width |-> w, location_height |-> h]

\* A token inside the template zone at the top of every page.
TokenInZone == Row(<<"S", "o", "1">>, 1, 200, 30, 50, 20, 4)

TokenA == Row(<<"S", "o", "1">>, 1, 100, 500, 100, 20, 4)

\* Overlaps TokenA; its text is an OCR misreading of TokenA's.
TokenB == Row(<<"S", "0", "l">>, 1, 150, 505, 100, 20, 4)

\* A token whose box has no width.
TokenZero == Row(<<"S", "o", "1">>, 1, 120, 505, 0, 10, 4)

\* A token of page 2, just above the signature line.
TokenPage2 == Row(<<"t", "o", "t">>, 2, 100, 785, 100, 30, 4)

\* A row of another OCR level.
TokenLevel5 == Row(<<"t", "o", "t">>, 1, 600, 700, 80, 20, 5)

\* A table: its rows, each with its index label.
Table(rows) == [i \in 1..Len(rows) |-> [idx |-> i] @@ rows[i]]

\* The tables of a one-page document.
Tables1 ==
    {Table(rows) :
        rows \in DistinctSeqs({TokenInZone, TokenA, TokenB, TokenZero}, MaxTokens)}

\* The tables of a two-page document.
Tables2 ==
    {Table(rows) : rows \in DistinctSeqs({TokenA, TokenPage2, TokenLevel5}, MaxTokens)}

Barcode1 == [location |-> <<Location(300, 500, 100, 50, 1)>>]

BarcodeNoLocation == [location |-> <<>>]

Line1 == [left |-> 100, top |-> 800, right |-> 300]

Signature1 == [signature |-> [location |-> Location(100, 785, 150, 40, 2)]]

Candidate(l, t, w, h, page, confidence) ==
    [left |-> l, top |-> t, width |-> w, height |-> h, page |-> page,
     confidence |-> confidence]

\* Covered exactly 70% by the template zone at (700, 80).
CandAt70 == Candidate(670, 100, 100, 10, <<1>>, Absent)

\* Covered 69% by the same zone.
CandAt69 == Candidate(669, 100, 100, 10, <<1>>, <<90>>)

\* On page 2, where Barcode1 lies on page 1.
CandPage2 == Candidate(300, 500, 100, 50, <<2>>, Absent)

\* Reaches over the right and bottom edges of the page.
CandOverEdge == Candidate(950, 950, 100, 100, Absent, Absent)

CandNoneConfidence == Candidate(500, 300, 50, 50, <<1>>, <<NoneValue>>)

CandSmall == Candidate(500, 400, 3, 3, <<1>>, Absent)

CandLowConfidence == Candidate(500, 600, 50, 50, <<1>>, <<50>>)

NotAList == [is_list |-> FALSE, items |-> <<>>]

List(items) == [is_list |-> TRUE, items |-> items]

EntryChoices ==
    {NotAList, List(<<>>), List(<<CandAt70, CandAt69>>),
     List(<<CandPage2, CandOverEdge, CandSmall, CandLowConfidence>>),
     List(<<CandNoneConfidence>>)}

RECURSIVE SeqsUpTo(_, _)
SeqsUpTo(S, n) ==
    IF n = 0 THEN {<<>>}
    ELSE LET shorter == SeqsUpTo(S, n - 1)
         IN shorter \cup {Append(s, x) : s \in {t \in shorter : Len(t) = n - 1}, x \in S}

\* Each candidate is an object of its own: id <<entry, position>>.
Stamp(result) ==
    [i \in 1..Len(result) |->
        [result[i] EXCEPT
            !.items = [j \in 1..Len(@) |-> [id |-> <<i, j>>] @@ @[j]]]]

\* What the awaited call does: it raises, or it returns a result.
Raises == [raises |-> TRUE, result |-> <<>>]

Returns(result) == [raises |-> FALSE, result |-> Stamp(result)]

DetectorResults == {Returns(r) : r \in SeqsUpTo(EntryChoices, MaxEntries)}

Msg(images, original_images, tsv, original_tsv, barcodes, lines, signatures) ==
    [images |-> images, original_images |-> original_images, tsv |-> tsv,
     original_tsv |-> original_tsv, barcodes |-> barcodes,
     horizontal_line_regions |-> lines, extracted_signatures |-> signatures]

\* Invocations that differ in their OCR tables.
OcrInputs ==
    {<<Msg(Some(Pages(1)), Some(Pages(1)), Some(tsv), Some(original_tsv), <<>>, <<>>,
           <<>>),
       Returns(<<List(<<>>)>>)>> : tsv \in Tables1, original_tsv \in Tables1}
    \cup
    {<<Msg(Some(Pages(2)), Some(Pages(2)), Some(tsv), Some(original_tsv), <<>>,
           <<Line1>>, <<Signature1>>),
       Returns(<<List(<<>>), List(<<>>)>>)>> : tsv \in Tables2, original_tsv \in Tables2}

\* Invocations that differ in what the detector does and in the zones.
VisualInputs ==
    {<<Msg(Some(Pages(2)), Some(Pages(2)), c[1], c[2], c[3], c[4], c[5]), d>> :
        c \in {<<Some(Table(<<TokenA>>)), Some(Table(<<TokenA, TokenPage2>>)),
                 <<>>, <<>>, <<>>>>,
               <<Some(Table(<<TokenA>>)), Some(Table(<<TokenA, TokenPage2>>)),
                 <<Barcode1>>, <<Line1>>, <<Signature1>>>>,
               <<Some(Table(<<TokenA>>)), Some(Table(<<TokenA, TokenPage2>>)),
                 <<BarcodeNoLocation>>, <<>>, <<>>>>,
               <<NoneList, NoneList, <<Barcode1>>, <<>>, <<>>>>,
               <<NoneList, NoneList, <<BarcodeNoLocation>>, <<>>, <<>>>>},
        d \in DetectorResults \cup {Raises}}

\* Invocations that differ in which inputs are missing.
ValidationInputs ==
    {<<Msg(images, original_images, tsv, original_tsv, <<>>, <<>>, <<>>), d>> :
        images \in {NoneList, Some(<<>>), Some(Pages(1)), Some(Pages(2))},
        original_images \in {NoneList, Some(<<>>), Some(Pages(1)), Some(Pages(2))},
        tsv \in {NoneList, Some(<<>>), Some(Table(<<TokenA>>))},
        original_tsv \in {NoneList, Some(<<>>), Some(Table(<<TokenA>>))},
        d \in {Returns(<<List(<<>>)>>), Returns(<<List(<<CandAt69>>)>>)}}

Inputs == OcrInputs \cup VisualInputs \cup ValidationInputs

\* ------------------------------------------------------------ process()

NoPass == [ran |-> FALSE]

\* The module as loaded; the slot of a returned copy holds nothing of its own yet.
ConfigIdle ==
    /\ heap = [r \in {ConfigRef, CopyRef} |-> DefaultConfig]
    /\ returned = NoRef
    /\ expected = [values |-> DefaultConfig, rejected |-> {}]
    /\ pass = NoPass

Init ==
    /\ ConfigIdle
    /\ \E input \in Inputs : message = input[1] /\ detector = input[2]
    /\ pc = "validate"
    /\ success_label = <<>>
    /\ exclude_label = <<>>
    /\ error_label = <<>>
    /\ ocr_differences = <<>>
    /\ zones = <<>>
    /\ raw_differences = <<>>
    /\ entity_annotation = <<>>
    /\ calls = <<>>

\* len(original_images) != len(images) raises TypeError on None.
validate_raises(msg) == msg.images.none \/ msg.original_images.none

MissingImages(msg) ==
    (IF ~IsTruthy(msg.images)
     THEN <<ValidationEntity("case_document_differences_ocr_missing_document_images")>>
     ELSE <<>>)
    \o (IF ~IsTruthy(msg.original_images)
        THEN <<ValidationEntity("case_document_differences_ocr_missing_case_document_images")>>
        ELSE <<>>)

MissingRest(msg) ==
    (IF Len(msg.original_images.list) # Len(msg.images.list)
     THEN <<ValidationEntity("case_document_differences_ocr_page_count_mismatch")>>
     ELSE <<>>)
    \o (IF msg.tsv.none \/ msg.tsv.list = <<>>
        THEN <<ValidationEntity("case_document_differences_ocr_missing_document_ocr")>>
        ELSE <<>>)
    \o (IF msg.original_tsv.none \/ msg.original_tsv.list = <<>>
        THEN <<ValidationEntity("case_document_differences_ocr_missing_case_document_ocr")>>
        ELSE <<>>)

ValidateDataExists ==
    /\ pc = "validate"
    /\ calls' = Append(calls, "validate_data_exists")
    /\ IF validate_raises(message)
       THEN /\ error_label' = error_label \o MissingImages(message)
            /\ pc' = "raised"
       ELSE /\ error_label' = error_label \o MissingImages(message) \o MissingRest(message)
            /\ pc' = "ocr"
    /\ UNCHANGED <<message, detector, success_label, exclude_label, ocr_differences,
                   zones, raw_differences, entity_annotation>>
    /\ UNCHANGED cfgvars

OcrDifference ==
    /\ pc = "ocr"
    /\ calls' = Append(calls, "ocr_difference")
    /\ IF error_label # <<>>
       THEN /\ pc' = "visual"
            /\ UNCHANGED <<ocr_differences, success_label>>
       ELSE IF check_raises(message)
       THEN /\ pc' = "raised"
            /\ UNCHANGED <<ocr_differences, success_label>>
       ELSE /\ ocr_differences' = check_differences_by_locations(message, DIFFERENCE_CONFIG)
            /\ success_label' = success_label \o OcrEntities(ocr_differences')
            /\ pc' = "visual"
    /\ UNCHANGED <<message, detector, exclude_label, error_label, zones, raw_differences,
                   entity_annotation>>
    /\ UNCHANGED cfgvars

\* visual_differences up to the await of the detector call.
VisualDifferences ==
    /\ pc = "visual"
    /\ calls' = Append(calls, "visual_differences")
    /\ IF IsTruthy(message.images) /\ IsTruthy(message.original_images)
       THEN IF zones_raise(message)
            THEN /\ error_label' = Append(error_label, ExceptionEntity)
                 /\ pc' = "finish"
                 /\ UNCHANGED <<zones, exclude_label>>
            ELSE /\ zones' = get_excluded_difference_locations(message)
                 /\ exclude_label' = exclude_label \o ExcludedEntities(zones')
                 /\ pc' = "await"
                 /\ UNCHANGED error_label
       ELSE /\ error_label' = Append(error_label, ImagesMissingEntity)
            /\ pc' = "finish"
            /\ UNCHANGED <<zones, exclude_label>>
    /\ UNCHANGED <<message, detector, success_label, ocr_differences, raw_differences,
                   entity_annotation>>
    /\ UNCHANGED cfgvars

\* The awaited visual_difference call raises.
DetectorRaises ==
    /\ pc = "await"
    /\ detector.raises
    /\ error_label' = Append(error_label, ExceptionEntity)
    /\ pc' = "finish"
    /\ UNCHANGED <<message, detector, success_label, exclude_label, ocr_differences,
                   zones, raw_differences, entity_annotation, calls>>
    /\ UNCHANGED cfgvars

\* A bug that emits the findings before the filter's exception is handled.
HandledFilterFailureKeepingFindings(found) ==
    /\ error_label' = Append(error_label, ExceptionEntity)
    /\ success_label' = success_label \o VisualEntities(found)

\* Lines 109-119 after filter_meaningful_differences raised.
HandledFilterFailure(found) ==
    /\ error_label' = Append(error_label, ExceptionEntity)
    /\ UNCHANGED success_label

\* The awaited call returns: the rest of get_differences and of visual_differences.
DetectorReturns ==
    /\ pc = "await"
    /\ ~detector.raises
    /\ LET found == get_differences(detector.result, zones, DIFFERENCE_CONFIG)
       IN /\ raw_differences' = found
          /\ IF filter_raises(found, DIFFERENCE_CONFIG)
             THEN HandledFilterFailure(found)
             ELSE /\ success_label' = success_label
                      \o VisualEntities(filter_meaningful_differences(found,
                                                                      DIFFERENCE_CONFIG))
                  /\ UNCHANGED error_label
    /\ pc' = "finish"
    /\ UNCHANGED <<message, detector, exclude_label, ocr_differences, zones,
                   entity_annotation, calls>>
    /\ UNCHANGED cfgvars

\* A bug: the rule as the prose has it.
SuccessWhenNotBoth(accepted, errors) == ~(accepted # <<>> /\ errors # <<>>)

\* Line 52: not bool(success_label.entities and not error_label.entities)
Success(accepted, errors) == ~(accepted # <<>> /\ ~(errors # <<>>))

DocResult ==
    [success |-> Success(success_label, error_label), message |-> "",
     results |-> <<success_label, error_label, exclude_label>>,
     module |-> "case_document_differences"]

Finish ==
    /\ pc = "finish"
    /\ entity_annotation' = Append(entity_annotation, DocResult)
    /\ pc' = "done"
    /\ UNCHANGED <<message, detector, success_label, exclude_label, error_label,
                   ocr_differences, zones, raw_differences, calls>>
    /\ UNCHANGED cfgvars

Next ==
    \/ ValidateDataExists
    \/ OcrDifference
    \/ VisualDifferences
    \/ DetectorRaises
    \/ DetectorReturns
    \/ Finish

vars == <<heap, returned, expected, pass, message, detector, pc, success_label,
          exclude_label, error_label, ocr_differences, zones, raw_differences,
          entity_annotation, calls>>

Spec == Init /\ [][Next]_vars

\* ------------------------------------- the runtime configuration surface

\* No invocation of process() is under way.
ProcessIdle ==
    /\ message = Msg(NoneList, NoneList, NoneList, NoneList, <<>>, <<>>, <<>>)
    /\ detector = Raises
    /\ pc = "idle"
    /\ success_label = <<>>
    /\ exclude_label = <<>>
    /\ error_label = <<>>
    /\ ocr_differences = <<>>
    /\ zones = <<>>
    /\ raw_differences = <<>>
    /\ entity_annotation = <<>>
    /\ calls = <<>>

InitConfig == ConfigIdle /\ ProcessIdle

Keys(items) == {items[i][1] : i \in 1..Len(items)}

\* The value kwargs gives key (a key occurs once in kwargs).
Given(items, key) == items[CHOOSE i \in 1..Len(items) : items[i][1] = key][2]

\* update_difference_config(**kwargs); items is kwargs.items().
UpdateDifferenceConfig(choices) ==
    \E items \in choices :
        /\ heap' = [heap EXCEPT ![ConfigRef] = UpdatedConfig(@, items)]
        /\ expected' =
               [values |-> [k \in ConfigKeys |->
                               IF k \in Keys(items) THEN Given(items, k)
                               ELSE expected.values[k]],
                rejected |-> expected.rejected \cup (Keys(items) \ ConfigKeys)]
        /\ UNCHANGED <<returned, pass>>
        /\ UNCHANGED procvars

\* get_difference_config()
GetDifferenceConfig ==
    /\ returned' = ReturnedRef
    /\ heap' = [heap EXCEPT ![ReturnedRef] = heap[ConfigRef]]
    /\ UNCHANGED <<expected, pass>>
    /\ UNCHANGED procvars

\* What a caller may do to the map it was given: set a key, known or not.
CallerWrites == {<<"max_differences_per_page", 1>>, <<"scratch", 9>>}

\* The caller writes into the map get_difference_config returned.
MutateReturned ==
    /\ returned # NoRef
    /\ \E w \in CallerWrites :
           heap' = [heap EXCEPT ![returned] =
                       [k \in DOMAIN @ \cup {w[1]} |-> IF k = w[1] THEN w[2] ELSE @[k]]]
    /\ UNCHANGED <<returned, expected, pass>>
    /\ UNCHANGED procvars

\* One call of filter_meaningful_differences under the thresholds of the moment.
FilterPass(lists) ==
    \E given \in lists :
        /\ ~filter_raises(given, DIFFERENCE_CONFIG)
        /\ pass' = [ran |-> TRUE, given |-> given, cfg |-> DIFFERENCE_CONFIG,
                    want |-> expected.values,
                    filtered |-> filter_meaningful_differences(given, DIFFERENCE_CONFIG)]
        /\ UNCHANGED <<heap, returned, expected>>
        /\ UNCHANGED procvars

\* The docstring's example, an unknown key beside a known one, one key alone,
\* all seven keys, and all seven back to their defaults.
ConfigKwargs ==
    { << <<"min_difference_area", 200>>, <<"exclusion_intersection_threshold", 80>> >>,
      << <<"min_area", 1>>, <<"confidence_threshold", 70>> >>,
      << <<"max_differences_per_page", 2>> >>,
      << <<"min_difference_area", 200>>, <<"min_difference_width", 10>>,
         <<"min_difference_height", 10>>, <<"exclusion_intersection_threshold", 80>>,
         <<"text_similarity_threshold", 80>>, <<"max_differences_per_page", 2>>,
         <<"confidence_threshold", 70>> >>,
      << <<"min_difference_area", 100>>, <<"min_difference_width", 5>>,
         <<"min_difference_height", 5>>, <<"exclusion_intersection_threshold", 70>>,
         <<"text_similarity_threshold", 75>>, <<"max_differences_per_page", 20>>,
         <<"confidence_threshold", 60>> >> }

Big == [id |-> <<1, 1>>] @@ Candidate(100, 100, 100, 100, <<1>>, Absent)

Mid == [id |-> <<1, 2>>] @@ Candidate(300, 300, 50, 50, <<1>>, <<90>>)

\* As large as Mid, without a page of its own.
MidNoPage == [id |-> <<1, 3>>] @@ Candidate(400, 400, 50, 50, Absent, Absent)

\* Larger than Mid, and too narrow.
Narrow == [id |-> <<1, 4>>] @@ Candidate(500, 50, 4, 900, <<1>>, Absent)

Small == [id |-> <<1, 5>>] @@ Candidate(600, 600, 20, 20, <<1>>, <<65>>)

OtherPage == [id |-> <<1, 6>>] @@ Candidate(100, 100, 60, 60, <<2>>, Absent)

ConfigLists == {<<Mid, Big, MidNoPage>>, <<Small, Narrow>>}

NextConfig ==
    \/ UpdateDifferenceConfig(ConfigKwargs)
    \/ GetDifferenceConfig
    \/ MutateReturned
    \/ FilterPass(ConfigLists)

SpecConfig == InitConfig /\ [][NextConfig]_vars

\* ------------------------------------------- filtering passes, one by one

FilterKwargs ==
    { << <<"max_differences_per_page", 2>> >>,
      << <<"max_differences_per_page", 1>> >>,
      << <<"max_differences", 3>> >> }

FilterLists == DistinctSeqs({Big, Mid, MidNoPage, Narrow, OtherPage}, MaxCands)

NextFilter ==
    \/ UpdateDifferenceConfig(FilterKwargs)
    \/ FilterPass(FilterLists)

SpecFilter == InitConfig /\ [][NextFilter]_vars

\* ================================================================ claims

Doc == entity_annotation[Len(entity_annotation)]

Names(label) == {label[i].entity[1] : i \in 1..Len(label)}

Count(label, prefix) == Cardinality({i \in 1..Len(label) : label[i].entity[1] = prefix})

\* The candidates that became visual findings, by object identity.
VisualFindingIds ==
    {success_label[i].location[1].id :
        i \in {k \in 1..Len(success_label) :
                  success_label[k].entity[1] = "case_document_visual_difference_"}}

BothImageSets == IsTruthy(message.images) /\ IsTruthy(message.original_images)

\* visual_differences got a result from the detector and has finished with it.
DetectorAnswered ==
    /\ pc \in {"finish", "done"}
    /\ BothImageSets
    /\ ~zones_raise(message)
    /\ ~detector.raises

\* ----------------------------------------------------------------- C1

\* C1 as stated: when process() is done, success is false exactly when there
\* are accepted findings and error findings at once.
C1_AsStated ==
    pc = "done" =>
        (~Doc.success <=> (Doc.results[1] # <<>> /\ Doc.results[2] # <<>>))

\* C1, amended: when process() is done, the DocResult's success flag is false
\* exactly when the accepted collection is non-empty and the error collection
\* is empty; in every other case it is true.
C1_SuccessRule ==
    pc = "done" =>
        /\ Len(entity_annotation) = 1
        /\ Doc.results = <<success_label, error_label, exclude_label>>
        /\ ~Doc.success <=> (success_label # <<>> /\ error_label = <<>>)

\* process() finished with accepted findings and error findings: success is true.
C1_Witness ==
    /\ pc = "done"
    /\ success_label # <<>>
    /\ error_label # <<>>
    /\ Doc.success

\* ----------------------------------------------------------------- C2

NoCandidates ==
    /\ ~detector.raises
    /\ \A i \in 1..Len(detector.result) :
           detector.result[i].is_list /\ detector.result[i].items = <<>>

\* The rows of a table have boxes with an area, no two of which overlap.
ProperBoxes(rows) ==
    /\ \A i \in 1..Len(rows) : rows[i].location_width > 0 /\ rows[i].location_height > 0
    /\ \A i, j \in 1..Len(rows) :
           i # j => IntersectionArea(RowLocation(rows[i], 1), RowLocation(rows[j], 1)) = 0

\* C2: two one-page documents with the same images and the same OCR table, and
\* a detector that finds nothing: process() finishes with no visual finding, no
\* OCR finding, no error finding and success true.  (Stated here for the tables
\* kindest to the claim: at least one row, every box with an area, no two boxes
\* overlapping.)
C2_IdenticalDocuments ==
    (/\ message.images = Some(Pages(1))
     /\ message.original_images = Some(Pages(1))
     /\ ~message.tsv.none
     /\ message.tsv.list # <<>>
     /\ ProperBoxes(message.tsv.list)
     /\ message.original_tsv = message.tsv
     /\ NoCandidates)
    => /\ pc # "raised"
       /\ pc = "done" =>
              /\ success_label = <<>>
              /\ ocr_differences = <<>>
              /\ error_label = <<>>
              /\ Doc.success

\* ----------------------------------------------------------------- C3

HasValidationError(msg) ==
    \/ ~IsTruthy(msg.images)
    \/ ~IsTruthy(msg.original_images)
    \/ Len(msg.images.list) # Len(msg.original_images.list)
    \/ ~IsTruthy(msg.tsv)
    \/ ~IsTruthy(msg.original_tsv)

\* C3: on an input with a validation error (an image set or an OCR table missing
\* or empty, or a page-count mismatch) process() does not raise; it ends with no
\* OCR finding, having run visual_differences and appended one DocResult; and
\* with reference images present and document images empty the error collection
\* holds missing_document_images and visual_images_missing.
C3_ValidationErrors ==
    HasValidationError(message) =>
        /\ pc # "raised"
        /\ pc = "done" =>
               /\ Count(success_label, "case_document_differences_ocr_") = 0
               /\ ocr_differences = <<>>
               /\ \E i \in 1..Len(calls) : calls[i] = "visual_differences"
               /\ Len(entity_annotation) = 1
               /\ (IsTruthy(message.original_images) /\ message.images = Some(<<>>))
                  => {"case_document_differences_ocr_missing_document_images",
                      "case_document_visual_images_missing"} \subseteq Names(error_label)

\* ----------------------------------------------------------------- C4

\* With both image sets present, something in visual_differences has raised: the
\* zone construction (a barcode without a location), the detector call, or the
\* filtering (a candidate whose confidence is None).
VisualRaised ==
    /\ pc \in {"finish", "done"}
    /\ BothImageSets
    /\ \/ zones_raise(message)
       \/ detector.raises
       \/ filter_raises(raw_differences, DIFFERENCE_CONFIG)

\* C4: an exception raised inside visual_differences does not leave process():
\* once visual_differences is entered process() never ends raised, and after
\* such an exception the error collection holds exactly one
\* case_document_visual_differences_exception, the accepted collection holds no
\* visual finding, and it holds the OCR findings exactly as ocr_difference
\* emitted them.
C4_ExceptionHandled ==
    /\ pc = "raised" => \A i \in 1..Len(calls) : calls[i] # "visual_differences"
    /\ VisualRaised =>
           /\ Count(error_label, "case_document_visual_differences_exception") = 1
           /\ VisualFindingIds = {}
           /\ success_label = OcrEntities(ocr_differences)
           /\ pc = "done" => Len(entity_annotation) = 1 /\ Doc.results[1] = success_label

\* The detector or the filter raised after OCR findings had been emitted.
C4_Witness ==
    /\ pc = "done"
    /\ VisualRaised
    /\ success_label # <<>>
    /\ ~zones_raise(message)

\* ----------------------------------------------------------------- C5

PageIds(list, p) == {list[i].id : i \in {k \in 1..Len(list) : PageOf(list[k]) = p}}

ById(list, id) == list[CHOOSE i \in 1..Len(list) : list[i].id = id]

PassesAll(d, cfg) ==
    /\ d.width * d.height >= cfg["min_difference_area"]
    /\ d.width >= cfg["min_difference_width"]
    /\ d.height >= cfg["min_difference_height"]
    /\ ConfidenceOf(d) >= cfg["confidence_threshold"]

\* C5: a filtering pass accepts at most max_differences_per_page candidates of
\* each page; when more candidates than that are on a page and all of them pass
\* the area, width, height and confidence thresholds, exactly that many are
\* accepted and no accepted one is smaller in area than a rejected one of the
\* same page.
C5_LargestFirst ==
    pass.ran =>
        \A p \in {PageOf(pass.given[i]) : i \in 1..Len(pass.given)} :
            LET max == pass.cfg["max_differences_per_page"]
                given == PageIds(pass.given, p)
                accepted == PageIds(pass.filtered, p)
            IN /\ accepted \subseteq given
               /\ Cardinality(accepted) <= max
               /\ (/\ Cardinality(given) > max
                   /\ \A c \in given : PassesAll(ById(pass.given, c), pass.cfg))
                  => /\ Cardinality(accepted) = max
                     /\ \A a \in accepted : \A r \in given \ accepted :
                            Area(ById(pass.given, a)) >= Area(ById(pass.given, r))

\* A pass over three passing candidates of one page under a cap of 2, the
\* smallest one given first.
C5_Witness ==
    /\ pass.ran
    /\ pass.cfg["max_differences_per_page"] = 2
    /\ Len(pass.given) = 3
    /\ \A i \in 1..3 : PageOf(pass.given[i]) = 1 /\ PassesAll(pass.given[i], pass.cfg)
    /\ Area(pass.given[1]) < Area(pass.given[2])
    /\ Len(pass.filtered) = 2

\* ----------------------------------------------------------------- C6

\* The candidates get_differences looks at: those of the list entries before
\* the first entry that is not a list.
RECURSIVE Looked(_)
Looked(result) ==
    IF result = <<>> \/ ~result[1].is_list THEN {}
    ELSE Range(result[1].items) \cup Looked(Tail(result))

Threshold == DIFFERENCE_CONFIG["exclusion_intersection_threshold"]

\* Some exclusion zone covers at least the threshold of the candidate's area.
Covered(c) ==
    \E i \in 1..Len(zones) :
        IntersectionArea(c, zones[i]) * 100 >= Threshold * Area(c) /\ Area(c) > 0

\* The candidate's place among the returned ones of its page, by area.
Position(c) == CHOOSE i \in 1..Len(raw_differences) : raw_differences[i].id = c.id

Ahead(c) ==
    {i \in 1..Len(raw_differences) :
        /\ PageOf(raw_differences[i]) = PageOf(c)
        /\ \/ Area(raw_differences[i]) > Area(c)
           \/ Area(raw_differences[i]) = Area(c) /\ i < Position(c)}

WithinCap(c) == Cardinality(Ahead(c)) < DIFFERENCE_CONFIG["max_differences_per_page"]

NoException == "case_document_visual_differences_exception" \notin Names(error_label)

\* C6: of the candidates get_differences looks at, one that some exclusion zone
\* covers to at least exclusion_intersection_threshold of its own area is
\* dropped and never becomes a visual finding, and one that every zone covers
\* to less than that is returned and, passing the size, confidence and per-page
\* cap filters (and no exception ending the pass), becomes a visual finding.
C6_ExclusionThreshold ==
    DetectorAnswered =>
        \A c \in Looked(detector.result) :
            /\ Covered(c) =>
                   /\ c \notin Range(raw_differences)
                   /\ c.id \notin VisualFindingIds
            /\ ~Covered(c) =>
                   /\ c \in Range(raw_differences)
                   /\ (NoException /\ PassesAll(c, DIFFERENCE_CONFIG) /\ WithinCap(c))
                      => c.id \in VisualFindingIds

\* One candidate covered exactly to the threshold was dropped, another covered
\* to less, and not at all free of the zone, became a finding.
C6_Witness ==
    /\ pc = "done"
    /\ DetectorAnswered
    /\ \E c \in Looked(detector.result) :
           /\ \E i \in 1..Len(zones) :
                  IntersectionArea(c, zones[i]) * 100 = Threshold * Area(c)
           /\ c.id \notin VisualFindingIds
    /\ \E c \in Looked(detector.result) :
           /\ \E i \in 1..Len(zones) : IntersectionArea(c, zones[i]) > 0
           /\ c.id \in VisualFindingIds

\* ----------------------------------------------------------------- C9

\* Some exclusion zone of the candidate's own page covers it to the threshold.
CoveredOnOwnPage(c) ==
    \E i \in 1..Len(zones) :
        /\ zones[i].page = PageOf(c)
        /\ IntersectionArea(c, zones[i]) * 100 >= Threshold * Area(c)
        /\ Area(c) > 0

\* C9: get_differences compares a candidate only with the exclusion zones of the
\* candidate's own page: a candidate it looks at that no zone of its own page
\* covers to the threshold is returned, whatever the zones of other pages are.
C9_PageScoped ==
    DetectorAnswered =>
        \A c \in Looked(detector.result) :
            ~CoveredOnOwnPage(c) => c \in Range(raw_differences)

\* ---------------------------------------------------------------- C10

FirstNonList ==
    LET r == detector.result
        bad == {i \in 1..Len(r) : ~r[i].is_list}
    IN IF bad = {} THEN Len(r) + 1 ELSE CHOOSE i \in bad : \A j \in bad : i <= j

\* C10: get_differences stops at the first entry that is not a list: the
\* candidates of the entries before it are filtered as ever, no candidate of an
\* entry after it is returned or becomes a visual finding, and the entry itself
\* is no error: an exception finding appears only when the filter raised on a
\* returned candidate.
C10_StopsAtNonList ==
    DetectorAnswered =>
        /\ \A i \in 1..Len(raw_differences) : raw_differences[i].id[1] < FirstNonList
        /\ \A id \in VisualFindingIds : id[1] < FirstNonList
        /\ \A i \in 1..Len(detector.result) : \A c \in Range(detector.result[i].items) :
               (i < FirstNonList /\ ~Covered(c)) =>
                   /\ c \in Range(raw_differences)
                   /\ (NoException /\ PassesAll(c, DIFFERENCE_CONFIG) /\ WithinCap(c))
                      => c.id \in VisualFindingIds
        /\ ~NoException =>
               \E i \in 1..Len(raw_differences) :
                   raw_differences[i].confidence = <<NoneValue>>

\* A list, then an entry that is not a list, then a list with a candidate that
\* would pass every filter: the first list gave a finding, the last none.
C10_Witness ==
    /\ pc = "done"
    /\ DetectorAnswered
    /\ NoException
    /\ FirstNonList = 2
    /\ Len(detector.result) = 3
    /\ \E id \in VisualFindingIds : id[1] = 1
    /\ \E c \in Range(detector.result[3].items) :
           ~Covered(c) /\ PassesAll(c, DIFFERENCE_CONFIG) /\ c.id \notin VisualFindingIds

\* ----------------------------------------------------------------- C7

\* check_differences_by_locations has run to its end on valid inputs.
OcrRan ==
    /\ "ocr_difference" \in Range(calls)
    /\ pc # "raised"
    /\ ~HasValidationError(message)

\* A row the alignment pass of some page looks at.
OnPage(row) == row.level = 4 /\ row.page_num \in 1..Len(message.original_images.list)

\* Some exclusion zone of the row's page covers more than half of the row.
Skipped(row) ==
    \E z \in Range(get_excluded_difference_locations(message)) :
        /\ z.page = row.page_num
        /\ IntersectionArea(RowLocation(row, row.page_num), z) * 2
               > Area(RowLocation(row, row.page_num))

Overlaps(r, c) ==
    /\ c.level = 4
    /\ c.page_num = r.page_num
    /\ IntersectionArea(RowLocation(r, r.page_num), RowLocation(c, c.page_num)) > 0
    /\ Area(RowLocation(r, r.page_num)) > 0

RefRows == Range(message.original_tsv.list)

DocRows == Range(message.tsv.list)

\* Some reference row that was not skipped met c first among the rows it overlaps.
MatchedTo(c) ==
    \E r \in RefRows :
        /\ OnPage(r)
        /\ ~Skipped(r)
        /\ Overlaps(r, c)
        /\ \A d \in DocRows : d.idx < c.idx => ~Overlaps(r, d)

FindingsOf(kind, row) ==
    {i \in 1..Len(ocr_differences) :
        ocr_differences[i].kind = kind /\ ocr_differences[i].row = row}

\* C7: after the OCR alignment on valid inputs, a reference token of a page that
\* no exclusion zone skips and that overlaps no document token of the page has
\* exactly one missing finding, carrying the token's text and location; a
\* document token of a page that no reference token was matched to has exactly
\* one added finding; every other token has none, and every missing or added
\* finding is of such a token.
C7_MissingAndAdded ==
    OcrRan =>
        /\ \A r \in RefRows :
               Cardinality(FindingsOf("Missing", r))
                   = IF OnPage(r) /\ ~Skipped(r) /\ \A c \in DocRows : ~Overlaps(r, c)
                     THEN 1 ELSE 0
        /\ \A c \in DocRows :
               Cardinality(FindingsOf("Added", c))
                   = IF OnPage(c) /\ ~MatchedTo(c) THEN 1 ELSE 0
        /\ \A i \in 1..Len(ocr_differences) :
               LET f == ocr_differences[i]
               IN /\ f.kind = "Missing" =>
                         /\ f.row \in RefRows
                         /\ f.difference = <<"Missing Text: ", f.row.text>>
                  /\ f.kind = "Added" =>
                         /\ f.row \in DocRows
                         /\ f.difference = <<"Added Text: ", f.row.text>>
                  /\ f.kind \in {"Missing", "Added"} =>
                         success_label[i].location
                             = <<Location(f.row.location_left, f.row.location_top,
                                          f.row.location_width, f.row.location_height,
                                          f.row.page_num)>>

\* An alignment that gave a missing and an added finding and left a matched pair
\* of tokens without either.
C7_Witness ==
    /\ OcrRan
    /\ \E i, j \in 1..Len(ocr_differences) :
           ocr_differences[i].kind = "Missing" /\ ocr_differences[j].kind = "Added"
    /\ \E r \in RefRows : \E c \in DocRows :
           /\ OnPage(r) /\ ~Skipped(r) /\ Overlaps(r, c)
           /\ FindingsOf("Missing", r) = {}
           /\ FindingsOf("Added", c) = {}

\* ----------------------------------------------------------------- C8

\* C8: the configuration always has the seven threshold names as its keys, each
\* holding the value of the last update that named it (its default when none
\* did), an update naming an unknown key leaving no trace; and a filtering pass
\* reads those values, whatever was written into a map get_difference_config
\* returned.
C8_ConfigFrame ==
    /\ DOMAIN DIFFERENCE_CONFIG = ConfigKeys
    /\ DIFFERENCE_CONFIG = expected.values
    /\ returned # NoRef => returned # ConfigRef
    /\ pass.ran => pass.cfg = pass.want

\* An unknown key was refused, a known one updated, a returned map written to
\* with a key of its own and a changed threshold, and a filtering pass ran.
C8_Witness ==
    /\ expected.rejected # {}
    /\ DIFFERENCE_CONFIG # DefaultConfig
    /\ returned = CopyRef
    /\ "scratch" \in DOMAIN heap[CopyRef]
    /\ heap[CopyRef]["max_differences_per_page"] # DIFFERENCE_CONFIG["max_differences_per_page"]
    /\ pass.ran

====
